---- MODULE Spec2Model ----
(***************************************************************************)
(* Model of the partiql-parser glue crate:                                 *)
(*   src/lib.rs   parse_partiql, the function exported to Python           *)
(*   src/main.rs  main, the interactive command line program               *)
(* A process is either a Python interpreter that imports the extension     *)
(* module (mode = "lib") or a run of the executable (mode = "bin").        *)
(* Text is a sequence of one-character strings; the fixed pieces a format  *)
(* string contributes are kept as whole tokens.                            *)
(***************************************************************************)
EXTENDS Integers, Sequences, FiniteSets, TLC

VARIABLES grammar, mode, module, history, parserCalls,
          pc, stdoutBuf, stdout, readRes, line, query, parsed, exitStatus, trace

vars == <<grammar, mode, module, history, parserCalls,
          pc, stdoutBuf, stdout, readRes, line, query, parsed, exitStatus, trace>>

libVars == <<module, history>>
binVars == <<pc, stdoutBuf, stdout, readRes, line, query, parsed, exitStatus, trace>>

\* ------------------------------------------------------------------ bounds
MaxLineLen == 3
MaxQueryLen == 2
MaxCalls == 3

\* ------------------------------------------------------------ text helpers
LF == "\n"
Chars == {" ", "a", "("}

IsWhitespace(c) == c \in {" ", "\t", "\n", "\r"}

StrsUpTo(S, n) == UNION {[1..k -> S] : k \in 0..n}

\* what read_line can deliver: the bytes up to and including the first line
\* feed, or up to end of input; the empty text only at end of input
Lines == StrsUpTo(Chars, MaxLineLen)
           \cup {Append(s, LF) : s \in StrsUpTo(Chars, MaxLineLen)}

\* what a Python caller can pass: any text, line feeds included
QueryChars == {" ", "a"}
Queries == StrsUpTo(QueryChars, MaxQueryLen)
             \cup {Append(s, LF) : s \in StrsUpTo(QueryChars, MaxQueryLen - 1)}

RECURSIVE TrimStart(_)
TrimStart(s) ==
  IF s # <<>> /\ IsWhitespace(Head(s)) THEN TrimStart(Tail(s)) ELSE s

RECURSIVE TrimEnd(_)
TrimEnd(s) ==
  IF s # <<>> /\ IsWhitespace(s[Len(s)])
  THEN TrimEnd(SubSeq(s, 1, Len(s) - 1)) ELSE s

Trim(s) == TrimEnd(TrimStart(s))

\* {:?} of a str: quoted, with the line feed escaped
EscapeChar(c) == IF c = LF THEN "\\n" ELSE c
DebugStr(s) == <<"\"">> \o [i \in 1..Len(s) |-> EscapeChar(s[i])] \o <<"\"">>

\* --------------------------------------------------- the external parser
\* The parsing library is an opaque dependency.  grammar names which of a
\* few stand-in languages it accepts; it is fixed for the whole behaviour.
Grammars == {"plain", "strict", "lenient"}

HasWord(s) == \E i \in 1..Len(s) : s[i] = "a"
HasParen(s) == \E i \in 1..Len(s) : s[i] = "("

Accepts(g, s) ==
  CASE g = "plain"   -> HasWord(s) /\ ~HasParen(s)
    [] g = "strict"  -> HasWord(s) /\ ~HasParen(s) /\ Trim(s) = s
    [] g = "lenient" -> TRUE

ParserParse(s) ==
  IF Accepts(grammar, s)
  THEN [ok |-> TRUE,  val |-> [kind |-> "Parsed", text |-> s]]
  ELSE [ok |-> FALSE, val |-> [kind |-> "ParserError", text |-> s]]

\* {:?} of the library's Parsed and ParserError structs
DebugValue(v) == <<v.kind, " { text: ">> \o DebugStr(v.text) \o <<" }">>

\* {:?} of the Result the parser returns
DebugResult(r) ==
  <<IF r.ok THEN "Ok" ELSE "Err", "(">> \o DebugValue(r.val) \o <<")">>

\* ------------------------------------------------------------- src/lib.rs
FailedPrefix == <<"Failed to parse query", ":", " ">>

\* variants of parse_partiql with one slip each
parse_partiql_display(q) ==
  LET res == ParserParse(q)
  IN  [invoked |-> <<q>>,
       ret |-> IF res.ok
               THEN [tag |-> "Ok", exc |-> "none", text |-> DebugValue(res.val)]
               ELSE [tag |-> "Err", exc |-> "PyValueError",
                     text |-> DebugValue(res.val)]]

parse_partiql_whole(q) ==
  LET res == ParserParse(q)
  IN  [invoked |-> <<q>>,
       ret |-> IF res.ok
               THEN [tag |-> "Ok", exc |-> "none", text |-> DebugResult(res)]
               ELSE [tag |-> "Err", exc |-> "PyValueError",
                     text |-> FailedPrefix \o DebugValue(res.val)]]

parse_partiql_trim(q) ==
  LET res == ParserParse(Trim(q))
  IN  [invoked |-> <<Trim(q)>>,
       ret |-> IF res.ok
               THEN [tag |-> "Ok", exc |-> "none", text |-> DebugValue(res.val)]
               ELSE [tag |-> "Err", exc |-> "PyValueError",
                     text |-> FailedPrefix \o DebugValue(res.val)]]

parse_partiql_poisoned(q) ==
  LET res == IF \E i \in 1..Len(history) : history[i].ret.tag = "Err"
             THEN [ok |-> FALSE, val |-> [kind |-> "ParserError", text |-> q]]
             ELSE ParserParse(q)
  IN  [invoked |-> <<q>>,
       ret |-> IF res.ok
               THEN [tag |-> "Ok", exc |-> "none", text |-> DebugValue(res.val)]
               ELSE [tag |-> "Err", exc |-> "PyValueError",
                     text |-> FailedPrefix \o DebugValue(res.val)]]

parse_partiql(q) ==
  LET res == ParserParse(q)
  IN  [invoked |-> <<q>>,
       ret |-> IF res.ok
               THEN [tag |-> "Ok", exc |-> "none", text |-> DebugValue(res.val)]
               ELSE [tag |-> "Err", exc |-> "PyValueError",
                     text |-> FailedPrefix \o DebugValue(res.val)]]

\* #[pymodule]: importing partiql_parser registers the function
ImportModule ==
  /\ mode = "lib"
  /\ module = {}
  /\ module' = {"parse_partiql"}
  /\ UNCHANGED <<grammar, mode, history, parserCalls>>
  /\ UNCHANGED binVars

Call(q) ==
  /\ mode = "lib"
  /\ "parse_partiql" \in module
  /\ Len(history) < MaxCalls
  /\ LET r == parse_partiql(q)
     IN  /\ history' = Append(history, [query |-> q, ret |-> r.ret])
         /\ parserCalls' = parserCalls \o r.invoked
  /\ UNCHANGED <<grammar, mode, module>>
  /\ UNCHANGED binVars

\* ------------------------------------------------------------ src/main.rs
Prompt == <<"Please enter your PartiQL query: ">>

ExitOk == 0
ExitErr == 1
ExitPanic == 101

NoResult == [ok |-> FALSE, val |-> [kind |-> "none", text |-> <<>>]]

\* print!: the prompt has no line feed, so it only reaches the line buffer
PrintPrompt ==
  /\ mode = "bin"
  /\ pc = "start"
  /\ stdoutBuf' = stdoutBuf \o Prompt
  /\ trace' = Append(trace, "prompt")
  /\ pc' = "flush"
  /\ UNCHANGED <<grammar, mode, parserCalls, stdout, readRes, line, query,
                 parsed, exitStatus>>
  /\ UNCHANGED libVars

\* io::stdout().flush()?
FlushNext_ignored(ok) == "read"

FlushNext(ok) == IF ok THEN "read" ELSE "exited"

Flush ==
  /\ mode = "bin"
  /\ pc = "flush"
  /\ \E ok \in BOOLEAN :
       /\ pc' = FlushNext(ok)
       /\ trace' = Append(trace, IF ok THEN "flush" ELSE "flush_err")
       /\ stdout' = IF ok THEN stdout \o stdoutBuf ELSE stdout
       /\ stdoutBuf' = IF ok THEN <<>> ELSE stdoutBuf
       /\ exitStatus' = IF FlushNext(ok) = "exited" THEN ExitErr ELSE exitStatus
  /\ UNCHANGED <<grammar, mode, parserCalls, readRes, line, query, parsed>>
  /\ UNCHANGED libVars

\* io::stdin().read_line(&mut query)?  -- the byte count is discarded
ReadNext_default(r) == "parse"

ReadNext_eof(r) == IF r.ok /\ r.n > 0 THEN "parse" ELSE "exited"

ReadNext(r) == IF r.ok THEN "parse" ELSE "exited"

ReadOutcomes ==
  {[ok |-> TRUE, n |-> Len(l), text |-> l] : l \in Lines}
    \cup {[ok |-> FALSE, n |-> 0, text |-> <<>>]}

ReadLine ==
  /\ mode = "bin"
  /\ pc = "read"
  /\ \E r \in ReadOutcomes :
       /\ readRes' = [ok |-> r.ok, n |-> r.n]
       /\ line' = line \o r.text
       /\ trace' = Append(trace, IF r.ok THEN "read" ELSE "read_err")
       /\ pc' = ReadNext(r)
       /\ exitStatus' = IF ReadNext(r) = "exited" THEN ExitErr ELSE exitStatus
  /\ UNCHANGED <<grammar, mode, parserCalls, stdoutBuf, stdout, query, parsed>>
  /\ UNCHANGED libVars

\* query.trim(); Parser::default(); parser.parse(query)
ParseArg_end(l) == TrimEnd(l)

ParseArg(l) == Trim(l)

ParseNext_okonly(r) == IF r.ok THEN "print" ELSE "exited"

ParseNext(r) == "print"

Parse ==
  /\ mode = "bin"
  /\ pc = "parse"
  /\ query' = ParseArg(line)
  /\ parsed' = ParserParse(query')
  /\ parserCalls' = Append(parserCalls, query')
  /\ trace' = Append(trace, "parse")
  /\ pc' = ParseNext(parsed')
  /\ exitStatus' = IF ParseNext(parsed') = "exited" THEN ExitOk ELSE exitStatus
  /\ UNCHANGED <<grammar, mode, stdoutBuf, stdout, readRes, line>>
  /\ UNCHANGED libVars

\* println!("Parsed Query: {:?}", parsed); Ok(())
ResultLine(r) == <<"Parsed Query: ">> \o DebugResult(r) \o <<LF>>

MainReturn_propagate(r) == IF r.ok THEN ExitOk ELSE ExitErr

MainReturn(r) == ExitOk

PrintResult ==
  /\ mode = "bin"
  /\ pc = "print"
  /\ \E ok \in BOOLEAN :
       /\ stdout' = IF ok THEN stdout \o stdoutBuf \o ResultLine(parsed)
                    ELSE stdout
       /\ stdoutBuf' = IF ok THEN <<>> ELSE stdoutBuf
       /\ trace' = Append(trace, IF ok THEN "print" ELSE "print_panic")
       /\ exitStatus' = IF ok THEN MainReturn(parsed) ELSE ExitPanic
  /\ pc' = "exited"
  /\ UNCHANGED <<grammar, mode, parserCalls, readRes, line, query, parsed>>
  /\ UNCHANGED libVars

\* ---------------------------------------------------------- specification
Init ==
  /\ grammar \in Grammars
  /\ mode \in {"lib", "bin"}
  /\ module = {}
  /\ history = <<>>
  /\ parserCalls = <<>>
  /\ pc = "start"
  /\ stdoutBuf = <<>>
  /\ stdout = <<>>
  /\ readRes = [ok |-> FALSE, n |-> 0]
  /\ line = <<>>
  /\ query = <<>>
  /\ parsed = NoResult
  /\ exitStatus = -1
  /\ trace = <<>>

CliNext == PrintPrompt \/ Flush \/ ReadLine \/ Parse \/ PrintResult

Next ==
  \/ ImportModule
  \/ \E q \in Queries : Call(q)
  \/ PrintPrompt
  \/ Flush
  \/ ReadLine
  \/ Parse
  \/ PrintResult

Spec == Init /\ [][Next]_vars

\* every step of main but the read returns by itself; the read returns once
\* the environment delivers a line, end of input or an error
FairSpec == Spec /\ WF_vars(CliNext)

\* ------------------------------------------------------------- properties
Has(e) == \E i \in 1..Len(trace) : trace[i] = e
Last(s) == s[Len(s)]
IoFailed == Has("flush_err") \/ Has("read_err") \/ Has("print_panic")
FullRun == <<"prompt", "flush", "read", "parse", "print">>

\* C1: a query the parser rejects makes parse_partiql return an error
\* result, a ValueError, whose message is "Failed to parse query" followed
\* by the debug representation of the parser's error.
C1_RejectedIsValueError ==
  \A i \in 1..Len(history) :
    LET h == history[i]
    IN  ~Accepts(grammar, h.query) =>
          /\ h.ret.tag = "Err"
          /\ h.ret.exc = "PyValueError"
          /\ h.ret.text = <<"Failed to parse query", ":", " ">>
               \o <<"ParserError", " { text: ">> \o DebugStr(h.query) \o <<" }">>

C1_Witness ==
  \E i \in 1..Len(history) :
    /\ ~Accepts(grammar, history[i].query)
    /\ history[i].ret.tag = "Err"

\* C2: a query the parser accepts makes parse_partiql return a success
\* result whose payload is the debug representation of the parsed
\* structure, a non-empty text.
C2_AcceptedIsOk ==
  \A i \in 1..Len(history) :
    LET h == history[i]
    IN  Accepts(grammar, h.query) =>
          /\ h.ret.tag = "Ok"
          /\ h.ret.text =
               <<"Parsed", " { text: ">> \o DebugStr(h.query) \o <<" }">>
          /\ Len(h.ret.text) > 0

C2_Witness ==
  \E i \in 1..Len(history) :
    /\ Accepts(grammar, history[i].query)
    /\ history[i].ret.tag = "Ok"

\* C3: every invocation of parse_partiql calls the parser exactly once, with
\* the caller's query unchanged, whether the parse succeeds or fails.
C3_OneParsePerCall ==
  mode = "lib" =>
    /\ Len(parserCalls) = Len(history)
    /\ \A i \in 1..Len(history) : parserCalls[i] = history[i].query

C3_Witness ==
  /\ Len(history) >= 2
  /\ \E i \in 1..Len(history) :
       /\ history[i].ret.tag = "Err"
       /\ Trim(history[i].query) # history[i].query

\* C4: when all input and output succeeds and the parser rejects the line,
\* the failure's debug representation is printed and the exit status is 0;
\* a non-zero exit status occurs only when an input or output operation
\* failed.
C4_ParseFailureExitsZero ==
  /\ (pc = "exited" /\ ~IoFailed /\ ~parsed.ok) =>
       /\ exitStatus = 0
       /\ stdout = Prompt \o <<"Parsed Query: ", "Err", "(">>
                     \o DebugValue(parsed.val) \o <<")", LF>>
  /\ (pc = "exited" /\ exitStatus # 0) => IoFailed

C4_Witness ==
  /\ pc = "exited"
  /\ trace = FullRun
  /\ ~parsed.ok
  /\ exitStatus = 0

\* C5: the prompt is written and the flush of standard output has succeeded
\* before the read of standard input begins; after a failed flush the read
\* is never started.
C5_FlushBeforeRead ==
  /\ (pc = "read" \/ Has("read") \/ Has("read_err")) =>
       /\ SubSeq(trace, 1, 2) = <<"prompt", "flush">>
       /\ SubSeq(stdout, 1, Len(Prompt)) = Prompt
  /\ Has("flush_err") => (pc # "read" /\ ~Has("read") /\ ~Has("read_err"))

C5_Witness ==
  /\ Len(trace) >= 3
  /\ trace[3] = "read"

\* C6: the parser receives the line read with all leading and trailing
\* whitespace, line terminator included, removed and inner whitespace kept;
\* the printed result line is the one that argument determines.
C6_TrimmedArgument ==
  Has("parse") =>
    /\ parserCalls = <<query>>
    /\ \E i \in 0..Len(line) : \E j \in i..Len(line) :
         /\ \A k \in 1..i : IsWhitespace(line[k])
         /\ \A k \in (j + 1)..Len(line) : IsWhitespace(line[k])
         /\ query = SubSeq(line, i + 1, j)
    /\ query # <<>> => (~IsWhitespace(query[1]) /\ ~IsWhitespace(Last(query)))
    /\ Has("print") => stdout = Prompt \o ResultLine(ParserParse(query))

C6_Witness ==
  /\ Has("print")
  /\ Len(query) < Len(line)
  /\ \E k \in 1..Len(query) : IsWhitespace(query[k])

\* C7: a run whose input and output succeed terminates after prompt, flush,
\* one read, one parse and one printed result line, in this order and once
\* each, whether the parse succeeded or failed.
C7_SinglePass ==
  /\ []((pc = "exited" /\ ~IoFailed) =>
          /\ trace = FullRun
          /\ Len(parserCalls) = 1
          /\ stdout = Prompt \o ResultLine(parsed))
  /\ (mode = "bin" ~> pc = "exited")

C7_Witness ==
  /\ pc = "exited"
  /\ trace = FullRun
  /\ Len(parserCalls) = 1
  /\ parsed.ok

\* C8: a failed flush or a failed read ends the process with a non-zero
\* status; the parser is not invoked and no result line is printed.
C8_IoFailurePropagates ==
  (Has("flush_err") \/ Has("read_err")) =>
    /\ pc = "exited"
    /\ exitStatus > 0
    /\ parserCalls = <<>>
    /\ ~Has("parse")
    /\ ~Has("print")
    /\ stdout \in {<<>>, Prompt}

C8_Witness ==
  /\ Has("read_err")
  /\ pc = "exited"

C10_EndOfInput ==
  (Has("read") /\ readRes.n = 0) =>
    /\ pc \in {"parse", "print", "exited"}
    /\ pc # "parse" => parserCalls = << <<>> >>
    /\ pc = "exited" => Last(trace) \in {"print", "print_panic"}
    /\ Has("print") =>
         /\ exitStatus = 0
         /\ stdout = Prompt \o ResultLine(ParserParse(<<>>))

C10_Witness ==
  /\ Has("read")
  /\ readRes.n = 0
  /\ pc = "exited"
  /\ exitStatus = 0

====
